---- MODULE Spec2Model ----
(***************************************************************************)
(* Model of neox/training.py: the pretraining driver (pretrain, setup,     *)
(* train, train_step, evaluate) of one worker process, together with the   *)
(* collaborators it calls: the DeepSpeed engine, the checkpoint manager    *)
(* and the OverflowMonitor.  A behaviour is a sequence of runs of the      *)
(* program with the same configuration; the checkpoint on disk is the      *)
(* only state that survives from one run to the next.                      *)
(***************************************************************************)
EXTENDS Integers, Sequences, FiniteSets, TLC

VARIABLES
    neox_args,          \* the configuration object (neox_args.iteration is set by setup)
    pc,                 \* position of the process in pretrain / train / train_step / evaluate
    run,                \* number of the current run of the program
    ckpt,               \* the checkpoint on disk (the latest one saved)
    engine,             \* DeepSpeed engine: micro_steps, global_steps, lr_step, overflow
    model_training,     \* model mode: TRUE after model.train(), FALSE after model.eval()
    iteration,          \* train()'s local variable `iteration'
    pretrain_iteration, \* pretrain()'s local variable `iteration'
    skipped_iter,       \* the flag the last train_step returned
    overflow_monitor,   \* OverflowMonitor: consecutive skips, and whether check raised
    mb,                 \* train_step: index of the micro-batch loop, len(losses)
    ev,                 \* evaluate: its locals (iteration, micro-batch index, losses, caller)
    events,             \* what this run has done so far, in order
    lr_history,         \* the scheduler position after each iteration of the training
                        \* that led to the state of the engine (history variable)
    ranks,              \* the workers of a distributed run: position, iteration,
                        \* monitor and the collectives issued so far
    overflows,          \* the overflow flag the engine reported for each train step
                        \* of the distributed run, the same on every worker
    built,              \* setup_model_and_optimizer: what get_model, get_optimizer and
                        \* get_learning_rate_scheduler returned
    batch               \* _get_batch: the data broadcast and the tensors returned

vars == <<neox_args, pc, run, ckpt, engine, model_training, iteration,
          pretrain_iteration, skipped_iter, overflow_monitor, mb, ev, events,
          lr_history, ranks, overflows, built, batch>>

\* The state of the distributed run, of the setup and of the batch.
others == <<ranks, overflows, built, batch>>

-----------------------------------------------------------------------------
(* Bounds of the model. *)

MaxTrainIters == 3
MaxInterval == 2
MaxGas == 2
MaxEvalIters == 2
\* eval_iters of the runs of the whole program.
TrainEvalIters == 1
MaxRuns == 2
\* The number of skips in a row at which the OverflowMonitor gives up.
OverflowThreshold == 2
\* The workers of the distributed run, and its longest training.
NumWorkers == 2
SpmdTrainIters == 3

Precisions == {"fp16", "bfloat16", "fp32"}

\* The configurations of a run.  `save' and `load' say whether a path is
\* configured; an interval of 0 stands for an interval that is not set.
Configs ==
    [ train_iters : 0..MaxTrainIters,
      do_train : BOOLEAN, do_valid : BOOLEAN, do_test : BOOLEAN,
      save : BOOLEAN, load : {FALSE},
      save_interval : 0..MaxInterval,
      eval_interval : 0..MaxInterval,
      exit_interval : 0..MaxInterval,
      precision : Precisions,
      is_pipe_parallel : BOOLEAN,
      gradient_accumulation_steps : 1..MaxGas,
      eval_iters : {TrainEvalIters},
      iteration : {0} ]

\* The configurations under which evaluate is run on its own.
EvalConfigs ==
    [ train_iters : {0},
      do_train : {FALSE}, do_valid : {TRUE}, do_test : {FALSE},
      save : {FALSE}, load : {FALSE},
      save_interval : {0}, eval_interval : {0}, exit_interval : {0},
      precision : Precisions,
      is_pipe_parallel : BOOLEAN,
      gradient_accumulation_steps : 1..MaxGas,
      eval_iters : 1..MaxEvalIters,
      iteration : {0} ]

-----------------------------------------------------------------------------
(* The DeepSpeed engine, as far as the driver depends on it. *)

EngineInit == [micro_steps |-> 0, global_steps |-> 0, lr_step |-> 0, overflow |-> FALSE]

\* model.step(): counts the micro-batch; at the boundary of the accumulation
\* window the optimizer takes a step, which reports an overflow (of) or
\* updates the parameters and advances the learning-rate scheduler.
EngineStep(e, gas, of) ==
    IF (e.micro_steps + 1) % gas = 0
    THEN [micro_steps |-> 0,
          global_steps |-> e.global_steps + 1,
          lr_step |-> IF of THEN e.lr_step ELSE e.lr_step + 1,
          overflow |-> of]
    ELSE [e EXCEPT !.micro_steps = e.micro_steps + 1]

\* model.train_batch(): the pipeline engine runs the whole window itself.
EngineTrainBatch(e, of) ==
    [micro_steps |-> e.micro_steps,
     global_steps |-> e.global_steps + 1,
     lr_step |-> IF of THEN e.lr_step ELSE e.lr_step + 1,
     overflow |-> of]

\* What a call on the model does to the engine: a forward pass (model(...) or
\* model.eval_batch) and model.backward leave the counters, the parameters and
\* the scheduler alone.
EngineCall(e, c, gas, of) ==
    CASE c = "step" -> EngineStep(e, gas, of)
      [] c = "train_batch" -> EngineTrainBatch(e, of)
      [] OTHER -> e

-----------------------------------------------------------------------------
(* The checkpoint manager. *)

NoCheckpoint == [exists |-> FALSE, iteration |-> 0, global_steps |-> 0, lr_step |-> 0]

\* save_checkpoint(iteration, model, optimizer, lr_scheduler)
SaveCheckpoint(it, e) ==
    [exists |-> TRUE, iteration |-> it, global_steps |-> e.global_steps, lr_step |-> e.lr_step]

\* load_checkpoint(model, optimizer, lr_scheduler): the engine as restored.
LoadCheckpointEngine(c, e) ==
    [e EXCEPT !.global_steps = c.global_steps, !.lr_step = c.lr_step]

\* load_checkpoint(...): the iteration it returns.
LoadCheckpointIteration(c) == c.iteration

-----------------------------------------------------------------------------
(* The OverflowMonitor. *)

OverflowMonitorInit == [skips |-> 0, raised |-> FALSE]

\* check(skipped): counts the skips in a row, starts again at a step that was
\* not skipped, and raises at OverflowThreshold skips in a row.
OverflowMonitorCheck(m, skipped) ==
    LET n == IF skipped = 1 THEN m.skips + 1 ELSE 0
    IN  [skips |-> n, raised |-> n >= OverflowThreshold]

-----------------------------------------------------------------------------
(* The decisions of the driver. *)

\* pretrain: whether train() is called.
DoTrain(args) == args.do_train /\ args.train_iters > 0

\* Mutant: the iteration load_checkpoint returned is dropped.
ResumeIterationZero(args, c) == 0

\* setup_model_and_optimizer: neox_args.iteration.
ResumeIteration(args, c) == IF args.load THEN LoadCheckpointIteration(c) ELSE 0

\* Mutant: train counts from 0 whatever was loaded.
TrainInitIterationZero(args) == 0

\* train: the initial value of `iteration'.
TrainInitIteration(args) == args.iteration

\* Mutant: the loop runs one step too many.
LoopCondInclusive(it, args) == it <= args.train_iters

\* train: the condition of the while loop.
LoopCond(it, args) == it < args.train_iters

\* Mutant: the counter is advanced twice.
NextIterationTwice(it) == it + 2

\* train: iteration += 1
NextIteration(it) == it + 1

\* Mutant: the pipeline branch of forward_step runs a training batch.
ForwardStepTrains(args) == IF args.is_pipe_parallel THEN "train_batch" ELSE "forward"

\* forward_step: the call it makes on the model.
ForwardStep(args) == IF args.is_pipe_parallel THEN "eval_batch" ELSE "forward"

\* Mutant: the pipeline engine is never used.
PipelineModeNever(args) == FALSE

\* train_step: if neox_args.is_pipe_parallel
PipelineMode(args) == args.is_pipe_parallel

\* Mutant: one micro-batch whatever the accumulation.
MicroBatchesOne(args) == 1

\* Mutant: one micro-batch more than the accumulation window holds.
MicroBatchesExtra(args) == args.gradient_accumulation_steps + 1

\* train_step: the number of micro-batches of the manual loop.
MicroBatches(args) == args.gradient_accumulation_steps

\* Mutant: the precision is not looked at.
SkippedIterAnyPrecision(args, e) == IF e.overflow THEN 1 ELSE 0

\* train_step: skipped_iter.
SkippedIter(args, e) == IF args.precision = "fp16" /\ e.overflow THEN 1 ELSE 0

\* Mutant: the monitor is built anew in every iteration.
CheckCallFresh(m, skipped) == OverflowMonitorCheck(OverflowMonitorInit, skipped)

\* train: overflow_monitor.check(skipped_iter), on the monitor built before the loop.
CheckCall(m, skipped) == OverflowMonitorCheck(m, skipped)

\* Mutant: the exception of check is swallowed.
AfterCheckSwallowed(m) == "training_log"

\* Mutant: one skipped step is an error.
AfterCheckAnySkip(m) == IF m.skips >= 1 THEN "aborted" ELSE "training_log"

\* train: an exception of check leaves train.
AfterCheck(m) == IF m.raised THEN "aborted" ELSE "training_log"

\* Mutant: the interval is tested on the counter before its increment.
SaveDueBefore(args, it) ==
    args.save /\ args.save_interval # 0 /\ (it - 1) % args.save_interval = 0

\* train: the condition of the checkpoint in the loop, and the iteration saved.
SaveDue(args, it) ==
    args.save /\ args.save_interval # 0 /\ it % args.save_interval = 0

SaveIteration(it) == it

\* train: the condition of the evaluation in the loop.
EvalDue(args, it) ==
    args.eval_interval # 0 /\ it % args.eval_interval = 0 /\ args.do_valid

\* Mutant: the interval is tested on the counter before its increment.
ExitDueBefore(args, it) == args.exit_interval # 0 /\ (it - 1) % args.exit_interval = 0

\* train: the condition of the synchronized exit.
ExitDue(args, it) == args.exit_interval # 0 /\ it % args.exit_interval = 0

\* Mutant: the iteration count is not looked at.
EndSaveDueAlways(args, it) == args.save

\* pretrain: the condition of the checkpoint at the end of the run.
EndSaveDue(args, it) == args.save /\ it # 0

\* Mutant: the accumulation steps are taken in pipeline mode too.
EvalMicroBatchesGas(args) == args.gradient_accumulation_steps

\* evaluate: the number of forward passes of one evaluation iteration.
EvalMicroBatches(args) ==
    IF args.is_pipe_parallel THEN 1 ELSE args.gradient_accumulation_steps

EvalLoopCond(i, args) == i < args.eval_iters

-----------------------------------------------------------------------------
(* Events. *)

Event(name, it, arg) == [ev |-> name, it |-> it, arg |-> arg]

\* loss_dict: its keys, and the number of losses its lm_loss was reduced from.
NoLossDict == [keys |-> {}, reduced |-> 0]

\* train_step: loss_dict = {"lm_loss": reduce_losses(losses).mean()}
ReduceLosses(n) == [keys |-> {"lm_loss"}, reduced |-> n]

\* train_step_pipe: loss_dict = {"lm_loss": loss}, the loss of the one call.
PipeLossDict == [keys |-> {"lm_loss"}, reduced |-> 1]

\* The locals of train_step: the micro-batch index, len(losses), the calls
\* made on the model so far in this step, and loss_dict; and what the engine
\* did in this step: the number of optimizer updates (taken or skipped), the
\* call that made the last of them and the overflow flag it reported.
MbInit == [i |-> 0, losses |-> 0, calls |-> <<>>, loss_dict |-> NoLossDict,
           updates |-> 0, update_call |-> 0, update_overflow |-> FALSE]

\* mb after a call that took the engine from e to f.
Updated(m, e, f) ==
    IF f.global_steps = e.global_steps THEN m
    ELSE [m EXCEPT !.updates = m.updates + 1, !.update_call = Len(m.calls),
                   !.update_overflow = f.overflow]

\* The locals of evaluate: its own `iteration', the micro-batch index,
\* len(losses), the number of forward passes, the position of the caller, the
\* iteration the caller reports the results under, the mode the model was in
\* at the call, and the calls made on the model so far.
EvInit == [iteration |-> 0, mb |-> 0, losses |-> 0, forwards |-> 0,
           ret |-> "none", tag |-> 0, before |-> TRUE, calls |-> <<>>]

EvCall(ret, tag) == [EvInit EXCEPT !.ret = ret, !.tag = tag]

Terminal == {"done", "exited", "aborted"}

Count(name) == Cardinality({i \in 1..Len(events) : events[i].ev = name})

\* The arguments of the events of one kind, in order.
Args(name) ==
    LET sel == SelectSeq(events, LAMBDA e : e.ev = name)
    IN  [i \in 1..Len(sel) |-> sel[i].arg]

Prefix(s, n) == SubSeq(s, 1, IF n < Len(s) THEN n ELSE Len(s))

Max(a, b) == IF a >= b THEN a ELSE b

\* The variables of the distributed run, of the setup and of the batch, where
\* the specification at hand has no use for them.
OthersIdle == ranks = <<>> /\ overflows = <<>> /\ built = <<>> /\ batch = <<>>

-----------------------------------------------------------------------------
Init ==
    /\ neox_args \in Configs
    /\ pc = "setup"
    /\ run = 1
    /\ ckpt = NoCheckpoint
    /\ engine = EngineInit
    /\ model_training = TRUE
    /\ iteration = 0
    /\ pretrain_iteration = 0
    /\ skipped_iter = 0
    /\ overflow_monitor = OverflowMonitorInit
    /\ mb = MbInit
    /\ ev = EvInit
    /\ events = <<>>
    /\ lr_history = <<>>
    /\ OthersIdle

-----------------------------------------------------------------------------
(* pretrain and setup_model_and_optimizer. *)

\* setup_model_and_optimizer: deepspeed.initialize, then load_checkpoint if a
\* load path is configured.
Setup ==
    /\ pc = "setup"
    /\ neox_args' = [neox_args EXCEPT !.iteration = ResumeIteration(neox_args, ckpt)]
    /\ engine' = IF neox_args.load THEN LoadCheckpointEngine(ckpt, EngineInit)
                                   ELSE EngineInit
    /\ events' = IF neox_args.load
                 THEN Append(events, Event("load", 0, LoadCheckpointIteration(ckpt)))
                 ELSE events
    /\ lr_history' = IF neox_args.load
                     THEN Prefix(lr_history, LoadCheckpointIteration(ckpt))
                     ELSE <<>>
    /\ pc' = "pretrain"
    /\ UNCHANGED <<run, ckpt, model_training, iteration, pretrain_iteration,
                   skipped_iter, overflow_monitor, mb, ev, others>>

\* pretrain: iteration = 0; if do_train and train_iters > 0: train(...)
Pretrain ==
    /\ pc = "pretrain"
    /\ pretrain_iteration' = 0
    /\ pc' = IF DoTrain(neox_args) THEN "train" ELSE "do_valid"
    /\ UNCHANGED <<neox_args, run, ckpt, engine, model_training, iteration,
                   skipped_iter, overflow_monitor, mb, ev, events, lr_history, others>>

\* pretrain: iteration = train(...)
TrainReturn ==
    /\ pc = "train_return"
    /\ pretrain_iteration' = iteration
    /\ events' = Append(events, Event("return", iteration, iteration))
    /\ pc' = "do_valid"
    /\ UNCHANGED <<neox_args, run, ckpt, engine, model_training, iteration,
                   skipped_iter, overflow_monitor, mb, ev, lr_history, others>>

\* pretrain: validation at the end of training.
DoValid ==
    /\ pc = "do_valid"
    /\ IF neox_args.do_valid
       THEN /\ ev' = EvCall("end_save", pretrain_iteration)
            /\ pc' = "evaluate"
       ELSE /\ ev' = ev
            /\ pc' = "end_save"
    /\ UNCHANGED <<neox_args, run, ckpt, engine, model_training, iteration,
                   pretrain_iteration, skipped_iter, overflow_monitor, mb, events, lr_history, others>>

\* pretrain: the checkpoint at the end of training.
EndSave ==
    /\ pc = "end_save"
    /\ IF EndSaveDue(neox_args, pretrain_iteration)
       THEN /\ ckpt' = SaveCheckpoint(pretrain_iteration, engine)
            /\ events' = Append(events, Event("end_save", pretrain_iteration,
                                              pretrain_iteration))
       ELSE UNCHANGED <<ckpt, events>>
    /\ pc' = "do_test"
    /\ UNCHANGED <<neox_args, run, engine, model_training, iteration,
                   pretrain_iteration, skipped_iter, overflow_monitor, mb, ev, lr_history, others>>

\* pretrain: evaluation on the test data.
DoTest ==
    /\ pc = "do_test"
    /\ IF neox_args.do_test
       THEN /\ ev' = EvCall("done", 0)
            /\ pc' = "evaluate"
       ELSE /\ ev' = ev
            /\ pc' = "done"
    /\ UNCHANGED <<neox_args, run, ckpt, engine, model_training, iteration,
                   pretrain_iteration, skipped_iter, overflow_monitor, mb, events, lr_history, others>>

-----------------------------------------------------------------------------
(* train. *)

\* train: model.train(), iteration = neox_args.iteration, OverflowMonitor(optimizer)
Train ==
    /\ pc = "train"
    /\ model_training' = TRUE
    /\ iteration' = TrainInitIteration(neox_args)
    /\ overflow_monitor' = OverflowMonitorInit
    /\ pc' = "while"
    /\ UNCHANGED <<neox_args, run, ckpt, engine, pretrain_iteration,
                   skipped_iter, mb, ev, events, lr_history, others>>

\* train: while iteration < neox_args.train_iters; the call of train_step
\* takes the pipeline branch or starts the manual loop.
While ==
    /\ pc = "while"
    /\ IF LoopCond(iteration, neox_args)
       THEN /\ mb' = MbInit
            /\ pc' = IF PipelineMode(neox_args) THEN "train_batch"
                     ELSE IF MbInit.i < MicroBatches(neox_args) THEN "forward"
                     ELSE "skipped_iter"
       ELSE /\ mb' = mb
            /\ pc' = "train_return"
    /\ UNCHANGED <<neox_args, run, ckpt, engine, model_training, iteration,
                   pretrain_iteration, skipped_iter, overflow_monitor, ev, events, lr_history, others>>

\* train_step, manual mode: loss = forward_step(...); losses.append(loss)
Forward ==
    /\ pc = "forward"
    /\ mb' = [mb EXCEPT !.losses = mb.losses + 1,
                        !.calls = Append(mb.calls, ForwardStep(neox_args))]
    /\ \E of \in BOOLEAN :
         engine' = EngineCall(engine, ForwardStep(neox_args),
                              neox_args.gradient_accumulation_steps, of)
    /\ pc' = "backward"
    /\ UNCHANGED <<neox_args, run, ckpt, model_training, iteration,
                   pretrain_iteration, skipped_iter, overflow_monitor, ev, events, lr_history, others>>

\* train_step, manual mode: backward_step(...)
Backward ==
    /\ pc = "backward"
    /\ mb' = [mb EXCEPT !.calls = Append(mb.calls, "backward")]
    /\ pc' = "step"
    /\ UNCHANGED <<neox_args, run, ckpt, engine, model_training, iteration,
                   pretrain_iteration, skipped_iter, overflow_monitor, ev, events, lr_history, others>>

\* train_step, manual mode: model.step(), the end of the loop body, and after
\* the last micro-batch the reduction of the losses.
Step ==
    /\ pc = "step"
    /\ \E of \in BOOLEAN :
         engine' = EngineStep(engine, neox_args.gradient_accumulation_steps, of)
    /\ mb' = Updated([mb EXCEPT !.i = mb.i + 1, !.calls = Append(mb.calls, "step"),
                                !.loss_dict = IF mb.i + 1 < MicroBatches(neox_args) THEN @
                                              ELSE ReduceLosses(mb.losses)],
                     engine, engine')
    /\ pc' = IF mb.i + 1 < MicroBatches(neox_args) THEN "forward" ELSE "skipped_iter"
    /\ UNCHANGED <<neox_args, run, ckpt, model_training, iteration,
                   pretrain_iteration, skipped_iter, overflow_monitor, ev, events, lr_history, others>>

\* train_step_pipe: loss = model.train_batch(data_iter=data_iterator)
TrainBatch ==
    /\ pc = "train_batch"
    /\ \E of \in BOOLEAN : engine' = EngineTrainBatch(engine, of)
    /\ mb' = Updated([mb EXCEPT !.calls = Append(mb.calls, "train_batch"),
                                !.loss_dict = PipeLossDict],
                     engine, engine')
    /\ pc' = "skipped_iter"
    /\ UNCHANGED <<neox_args, run, ckpt, model_training, iteration,
                   pretrain_iteration, skipped_iter, overflow_monitor, ev, events, lr_history, others>>

\* train_step: the overflow flag, and the return to train.
TrainStepReturn ==
    /\ pc = "skipped_iter"
    /\ skipped_iter' = SkippedIter(neox_args, engine)
    /\ events' = Append(events, Event("train_step", iteration,
                                      SkippedIter(neox_args, engine)))
    /\ pc' = "increment"
    /\ UNCHANGED <<neox_args, run, ckpt, engine, model_training, iteration,
                   pretrain_iteration, overflow_monitor, mb, ev, lr_history, others>>

\* train: iteration += 1
Increment ==
    /\ pc = "increment"
    /\ iteration' = NextIteration(iteration)
    /\ lr_history' = Append(lr_history, engine.lr_step)
    /\ pc' = "check"
    /\ UNCHANGED <<neox_args, run, ckpt, engine, model_training,
                   pretrain_iteration, skipped_iter, overflow_monitor, mb, ev, events, others>>

\* train: overflow_monitor.check(skipped_iter)
Check ==
    /\ pc = "check"
    /\ overflow_monitor' = CheckCall(overflow_monitor, skipped_iter)
    /\ events' = Append(events, Event("check", iteration, skipped_iter))
    /\ pc' = AfterCheck(overflow_monitor')
    /\ UNCHANGED <<neox_args, run, ckpt, engine, model_training, iteration,
                   pretrain_iteration, skipped_iter, mb, ev, lr_history, others>>

\* train: the noise scale, the learning rate and training_log(...)
TrainingLog ==
    /\ pc = "training_log"
    /\ events' = Append(events, Event("log", iteration, skipped_iter))
    /\ pc' = "checkpointing"
    /\ UNCHANGED <<neox_args, run, ckpt, engine, model_training, iteration,
                   pretrain_iteration, skipped_iter, overflow_monitor, mb, ev, lr_history, others>>

\* train: the checkpoint on the save interval.
Checkpointing ==
    /\ pc = "checkpointing"
    /\ IF SaveDue(neox_args, iteration)
       THEN /\ ckpt' = SaveCheckpoint(SaveIteration(iteration), engine)
            /\ events' = Append(events, Event("save", iteration, SaveIteration(iteration)))
       ELSE UNCHANGED <<ckpt, events>>
    /\ pc' = "evaluation"
    /\ UNCHANGED <<neox_args, run, engine, model_training, iteration,
                   pretrain_iteration, skipped_iter, overflow_monitor, mb, ev, lr_history, others>>

\* train: the evaluation on the eval interval.
Evaluation ==
    /\ pc = "evaluation"
    /\ IF EvalDue(neox_args, iteration)
       THEN /\ ev' = EvCall("exit", iteration)
            /\ pc' = "evaluate"
       ELSE /\ ev' = ev
            /\ pc' = "exit"
    /\ UNCHANGED <<neox_args, run, ckpt, engine, model_training, iteration,
                   pretrain_iteration, skipped_iter, overflow_monitor, mb, events, lr_history, others>>

\* train: the exit on the exit interval: the barrier, then sys.exit().
Exit ==
    /\ pc = "exit"
    /\ IF ExitDue(neox_args, iteration)
       THEN /\ events' = Append(events, Event("barrier", iteration, iteration))
            /\ pc' = "exited"
       ELSE /\ events' = events
            /\ pc' = "while"
    /\ UNCHANGED <<neox_args, run, ckpt, engine, model_training, iteration,
                   pretrain_iteration, skipped_iter, overflow_monitor, mb, ev, lr_history, others>>

-----------------------------------------------------------------------------
(* evaluate. *)

\* model.eval()
EvalMode(m) == FALSE

\* Mutant: the model is left in the mode evaluate put it in.
TrainModeKept(m) == m

\* model.train()
TrainMode(m) == TRUE

\* evaluate: model.eval(); losses = []; iteration = 0
Evaluate ==
    /\ pc = "evaluate"
    /\ model_training' = EvalMode(model_training)
    /\ ev' = [ev EXCEPT !.before = model_training]
    /\ events' = Append(events, Event("evaluate", ev.tag, ev.tag))
    /\ pc' = "eval_while"
    /\ UNCHANGED <<neox_args, run, ckpt, engine, iteration, pretrain_iteration,
                   skipped_iter, overflow_monitor, mb, lr_history, others>>

\* evaluate: while iteration < neox_args.eval_iters: iteration += 1
EvalWhile ==
    /\ pc = "eval_while"
    /\ IF EvalLoopCond(ev.iteration, neox_args)
       THEN /\ ev' = [ev EXCEPT !.iteration = ev.iteration + 1, !.mb = 0]
            /\ pc' = IF 0 < EvalMicroBatches(neox_args) THEN "eval_forward"
                     ELSE "eval_while"
       ELSE /\ ev' = ev
            /\ pc' = "eval_return"
    /\ UNCHANGED <<neox_args, run, ckpt, engine, model_training, iteration,
                   pretrain_iteration, skipped_iter, overflow_monitor, mb, events, lr_history, others>>

\* evaluate: loss = forward_step_fn(...); losses.append(loss)
EvalForward ==
    /\ pc = "eval_forward"
    /\ ev' = [ev EXCEPT !.mb = ev.mb + 1, !.losses = ev.losses + 1,
                        !.forwards = ev.forwards + 1,
                        !.calls = Append(ev.calls, ForwardStep(neox_args))]
    /\ \E of \in BOOLEAN :
         engine' = EngineCall(engine, ForwardStep(neox_args),
                              neox_args.gradient_accumulation_steps, of)
    /\ pc' = IF ev.mb + 1 < EvalMicroBatches(neox_args) THEN "eval_forward"
             ELSE "eval_while"
    /\ UNCHANGED <<neox_args, run, ckpt, model_training, iteration,
                   pretrain_iteration, skipped_iter, overflow_monitor, mb, events, lr_history, others>>

\* evaluate: the reduction of the losses, model.train(), return
EvalReturn ==
    /\ pc = "eval_return"
    /\ model_training' = TrainMode(model_training)
    /\ events' = Append(events, Event("evaluated", ev.tag, ev.forwards))
    /\ pc' = ev.ret
    /\ UNCHANGED <<neox_args, run, ckpt, engine, iteration, pretrain_iteration,
                   skipped_iter, overflow_monitor, mb, ev, lr_history, others>>

-----------------------------------------------------------------------------
(* The next run: the program is started again, with the checkpoint of the   *)
(* run before as the one to load.                                           *)

Restart ==
    /\ pc \in Terminal
    /\ run < MaxRuns
    /\ ckpt.exists
    /\ run' = run + 1
    /\ neox_args' = [neox_args EXCEPT !.load = TRUE, !.iteration = 0]
    /\ pc' = "setup"
    /\ engine' = EngineInit
    /\ model_training' = TRUE
    /\ iteration' = 0
    /\ pretrain_iteration' = 0
    /\ skipped_iter' = 0
    /\ overflow_monitor' = OverflowMonitorInit
    /\ mb' = MbInit
    /\ ev' = EvInit
    /\ events' = <<>>
    /\ UNCHANGED <<ckpt, lr_history, others>>

-----------------------------------------------------------------------------
Next ==
    \/ Setup \/ Pretrain \/ Train \/ While
    \/ Forward \/ Backward \/ Step \/ TrainBatch \/ TrainStepReturn
    \/ Increment \/ Check \/ TrainingLog \/ Checkpointing \/ Evaluation \/ Exit
    \/ TrainReturn \/ DoValid \/ EndSave \/ DoTest
    \/ Evaluate \/ EvalWhile \/ EvalForward \/ EvalReturn
    \/ Restart

Spec == Init /\ [][Next]_vars

\* The runs in fp16 (the precision in which a step can be skipped) without the
\* evaluation on the test data, under the fairness of a process that keeps
\* running: a program that can take a step takes one.
FairInit == Init /\ neox_args.precision = "fp16" /\ ~neox_args.do_test

FairSpec == FairInit /\ [][Next]_vars /\ WF_vars(Next)

\* evaluate called on its own, on a model in either mode.
InitEval ==
    /\ neox_args \in EvalConfigs
    /\ pc = "evaluate"
    /\ run = 1
    /\ ckpt = NoCheckpoint
    /\ \E g \in 0..MaxTrainIters : \E l \in 0..g :
          engine = [EngineInit EXCEPT !.global_steps = g, !.lr_step = l]
    /\ model_training \in BOOLEAN
    /\ iteration = 0
    /\ pretrain_iteration = 0
    /\ skipped_iter = 0
    /\ overflow_monitor = OverflowMonitorInit
    /\ mb = MbInit
    /\ ev = EvCall("caller", 0)
    /\ events = <<>>
    /\ lr_history = <<>>
    /\ OthersIdle

NextEval == Evaluate \/ EvalWhile \/ EvalForward \/ EvalReturn

EvalSpec == InitEval /\ [][NextEval]_vars

-----------------------------------------------------------------------------
(* The distributed run: the training loop of train on every worker.  Each  *)
(* worker runs the same code on the same configuration; train_step,        *)
(* save_checkpoint, evaluate and torch.distributed.barrier are collectives, *)
(* which a worker leaves once every worker has entered them.               *)

Workers == 1..NumWorkers

SpmdConfigs ==
    [ train_iters : 1..SpmdTrainIters,
      do_train : {TRUE}, do_valid : {TRUE}, do_test : {FALSE},
      save : {TRUE}, load : {FALSE},
      save_interval : 0..MaxInterval,
      eval_interval : 0..MaxInterval,
      exit_interval : 0..MaxInterval,
      precision : {"fp16", "fp32"},
      is_pipe_parallel : {FALSE},
      gradient_accumulation_steps : {1},
      eval_iters : {TrainEvalIters},
      iteration : {0} ]

\* train, up to the loop: iteration = neox_args.iteration, OverflowMonitor(optimizer)
RankInit(args) ==
    [pc |-> "while", iteration |-> TrainInitIteration(args), skipped_iter |-> 0,
     overflow_monitor |-> OverflowMonitorInit, ops |-> <<>>]

\* A collective as a worker issues it: its kind and the iteration it is issued at.
Op(kind, it) == [op |-> kind, it |-> it]

SpmdTerminal == {"returned", "exited", "aborted"}

\* A blocking collective: the worker that issued its k-th collective leaves
\* it when every worker has issued that same collective as its k-th one.
CollectiveDone(rs, w) ==
    LET k == Len(rs[w].ops)
    IN  \A v \in Workers : Len(rs[v].ops) >= k /\ rs[v].ops[k] = rs[w].ops[k]

\* The overflow flag of the n-th train step: the engine reduces it over the
\* workers, so the first worker to leave the step fixes it for all of them.
OverflowOf(flags, n, of) == IF n <= Len(flags) THEN flags[n] ELSE of

\* Mutant: only the first worker saves.
SaveCallerRankZero(args, it, w) == SaveDue(args, it) /\ w = 1

\* train: save_checkpoint is called by every worker whose iteration is on the
\* save interval; the rank is not looked at.
SaveCaller(args, it, w) == SaveDue(args, it)

\* Mutant: sys.exit() without the barrier.
ExitNoBarrier(args, it) == IF ExitDue(args, it) THEN "exited" ELSE "while"

\* train: on the exit interval the worker enters torch.distributed.barrier()
\* before sys.exit(); otherwise the loop goes on.
ExitStart(args, it) == IF ExitDue(args, it) THEN "barrier" ELSE "while"

InitSpmd ==
    /\ neox_args \in SpmdConfigs
    /\ pc = "train"
    /\ run = 1
    /\ ckpt = NoCheckpoint
    /\ engine = EngineInit
    /\ model_training = TRUE
    /\ iteration = 0
    /\ pretrain_iteration = 0
    /\ skipped_iter = 0
    /\ overflow_monitor = OverflowMonitorInit
    /\ mb = MbInit
    /\ ev = EvInit
    /\ events = <<>>
    /\ lr_history = <<>>
    /\ ranks = [w \in Workers |-> RankInit(neox_args)]
    /\ overflows = <<>>
    /\ built = <<>>
    /\ batch = <<>>

\* What a step of a worker leaves alone.
SpmdFrame ==
    UNCHANGED <<neox_args, pc, run, ckpt, engine, model_training, iteration,
                pretrain_iteration, skipped_iter, overflow_monitor, mb, ev, events,
                lr_history, built, batch>>

\* train: while iteration < neox_args.train_iters: the worker enters train_step.
RankWhile(w) ==
    /\ ranks[w].pc = "while"
    /\ ranks' = IF LoopCond(ranks[w].iteration, neox_args)
                THEN [ranks EXCEPT ![w].pc = "train_step",
                                   ![w].ops = Append(@, Op("train_step", ranks[w].iteration))]
                ELSE [ranks EXCEPT ![w].pc = "returned"]
    /\ UNCHANGED overflows
    /\ SpmdFrame

\* train_step: the step is taken by all workers together; skipped_iter.
RankTrainStep(w) ==
    /\ ranks[w].pc = "train_step"
    /\ CollectiveDone(ranks, w)
    /\ \E of \in BOOLEAN :
         LET n == ranks[w].iteration + 1
             flag == OverflowOf(overflows, n, of)
         IN  /\ overflows' = IF n <= Len(overflows) THEN overflows
                                                      ELSE Append(overflows, flag)
             /\ ranks' = [ranks EXCEPT
                   ![w].pc = "increment",
                   ![w].skipped_iter =
                       SkippedIter(neox_args, [EngineInit EXCEPT !.overflow = flag])]
    /\ SpmdFrame

\* train: iteration += 1
RankIncrement(w) ==
    /\ ranks[w].pc = "increment"
    /\ ranks' = [ranks EXCEPT ![w].pc = "check",
                              ![w].iteration = NextIteration(@)]
    /\ UNCHANGED overflows
    /\ SpmdFrame

\* train: overflow_monitor.check(skipped_iter)
RankCheck(w) ==
    /\ ranks[w].pc = "check"
    /\ LET m == CheckCall(ranks[w].overflow_monitor, ranks[w].skipped_iter)
       IN  ranks' = [ranks EXCEPT ![w].overflow_monitor = m, ![w].pc = AfterCheck(m)]
    /\ UNCHANGED overflows
    /\ SpmdFrame

\* train: training_log(...), then the checkpoint on the save interval.
RankCheckpointing(w) ==
    /\ ranks[w].pc = "training_log"
    /\ ranks' = IF SaveCaller(neox_args, ranks[w].iteration, w)
                THEN [ranks EXCEPT ![w].pc = "save_checkpoint",
                                   ![w].ops = Append(@, Op("save_checkpoint",
                                                           ranks[w].iteration))]
                ELSE [ranks EXCEPT ![w].pc = "evaluation"]
    /\ UNCHANGED overflows
    /\ SpmdFrame

\* save_checkpoint returns.
RankSaveCheckpoint(w) ==
    /\ ranks[w].pc = "save_checkpoint"
    /\ CollectiveDone(ranks, w)
    /\ ranks' = [ranks EXCEPT ![w].pc = "evaluation"]
    /\ UNCHANGED overflows
    /\ SpmdFrame

\* train: the evaluation on the eval interval.
RankEvaluation(w) ==
    /\ ranks[w].pc = "evaluation"
    /\ ranks' = IF EvalDue(neox_args, ranks[w].iteration)
                THEN [ranks EXCEPT ![w].pc = "evaluate",
                                   ![w].ops = Append(@, Op("evaluate", ranks[w].iteration))]
                ELSE [ranks EXCEPT ![w].pc = "exit"]
    /\ UNCHANGED overflows
    /\ SpmdFrame

\* evaluate_and_print_results returns.
RankEvaluate(w) ==
    /\ ranks[w].pc = "evaluate"
    /\ CollectiveDone(ranks, w)
    /\ ranks' = [ranks EXCEPT ![w].pc = "exit"]
    /\ UNCHANGED overflows
    /\ SpmdFrame

\* train: the test of the exit interval; the worker enters the barrier.
RankExit(w) ==
    /\ ranks[w].pc = "exit"
    /\ LET to == ExitStart(neox_args, ranks[w].iteration)
       IN  ranks' = [ranks EXCEPT
                 ![w].pc = to,
                 ![w].ops = IF to = "barrier"
                            THEN Append(@, Op("barrier", ranks[w].iteration)) ELSE @]
    /\ UNCHANGED overflows
    /\ SpmdFrame

\* train: the barrier is passed; sys.exit()
RankBarrier(w) ==
    /\ ranks[w].pc = "barrier"
    /\ CollectiveDone(ranks, w)
    /\ ranks' = [ranks EXCEPT ![w].pc = "exited"]
    /\ UNCHANGED overflows
    /\ SpmdFrame

NextSpmd ==
    \/ \E w \in Workers : RankWhile(w)
    \/ \E w \in Workers : RankTrainStep(w)
    \/ \E w \in Workers : RankIncrement(w)
    \/ \E w \in Workers : RankCheck(w)
    \/ \E w \in Workers : RankCheckpointing(w)
    \/ \E w \in Workers : RankSaveCheckpoint(w)
    \/ \E w \in Workers : RankEvaluation(w)
    \/ \E w \in Workers : RankEvaluate(w)
    \/ \E w \in Workers : RankExit(w)
    \/ \E w \in Workers : RankBarrier(w)

SpmdSpec == InitSpmd /\ [][NextSpmd]_vars

-----------------------------------------------------------------------------
(* setup_model_and_optimizer up to deepspeed.initialize: get_model,        *)
(* get_optimizer and get_learning_rate_scheduler.  A string is the         *)
(* sequence of its characters, a parameter name the sequence of its parts. *)

MaxLayers == 2

UpperCase ==
    <<"A", "B", "C", "D", "E", "F", "G", "H", "I", "J", "K", "L", "M", "N", "O", "P", "Q", "R", "S", "T", "U", "V", "W", "X", "Y", "Z">>

LowerCase ==
    <<"a", "b", "c", "d", "e", "f", "g", "h", "i", "j", "k", "l", "m", "n", "o", "p", "q", "r", "s", "t", "u", "v", "w", "x", "y", "z">>

\* str.lower() on one character, and on a string.
LowerChar(c) ==
    IF \E i \in 1..Len(UpperCase) : UpperCase[i] = c
    THEN LowerCase[CHOOSE i \in 1..Len(UpperCase) : UpperCase[i] = c]
    ELSE c

Lower(str) == [i \in 1..Len(str) |-> LowerChar(str[i])]

\* `sub in str'
Contains(sub, str) ==
    \E i \in 1..(Len(str) - Len(sub) + 1) : SubSeq(str, i, i + Len(sub) - 1) = sub

\* The optimizer types get_optimizer knows.
CPU_ADAM == <<"c", "p", "u", "_", "a", "d", "a", "m">>
CPU_TORCH_ADAM == <<"c", "p", "u", "_", "t", "o", "r", "c", "h", "_", "a", "d", "a", "m">>
ONEBITADAM == <<"o", "n", "e", "b", "i", "t", "a", "d", "a", "m">>
SM3 == <<"s", "m", "3">>
MADGRAD_WD == <<"m", "a", "d", "g", "r", "a", "d", "_", "w", "d">>
ADAM == <<"a", "d", "a", "m">>

KnownTypes == {CPU_ADAM, CPU_TORCH_ADAM, ONEBITADAM, SM3, MADGRAD_WD, ADAM}

\* The type strings of the configurations: the known types in several
\* spellings, and strings that are none of them.
TypeStrings ==
    { <<"a", "d", "a", "m">>,
      <<"A", "d", "a", "m">>,
      <<"A", "D", "A", "M">>,
      <<"c", "p", "u", "_", "a", "d", "a", "m">>,
      <<"C", "P", "U", "_", "A", "d", "a", "m">>,
      <<"c", "p", "u", "_", "t", "o", "r", "c", "h", "_", "a", "d", "a", "m">>,
      <<"C", "p", "u", "_", "T", "o", "r", "c", "h", "_", "A", "d", "a", "m">>,
      <<"o", "n", "e", "b", "i", "t", "a", "d", "a", "m">>,
      <<"O", "n", "e", "B", "i", "t", "A", "d", "a", "m">>,
      <<"s", "m", "3">>,
      <<"S", "M", "3">>,
      <<"m", "a", "d", "g", "r", "a", "d", "_", "w", "d">>,
      <<"M", "A", "D", "G", "R", "A", "D", "_", "W", "D">>,
      <<"s", "g", "d">>,
      <<"A", "d", "a", "m", "W">>,
      <<"l", "a", "m", "b">>,
      <<"a", "d", "a", "m", " ">>,
      <<>> }

\* neox_args.soft_prompt_tuning: None, or a dict with or without "enabled".
SoftPromptTunings ==
    { [is_none |-> TRUE, has_enabled |-> FALSE, enabled |-> FALSE],
      [is_none |-> FALSE, has_enabled |-> FALSE, enabled |-> FALSE],
      [is_none |-> FALSE, has_enabled |-> TRUE, enabled |-> FALSE],
      [is_none |-> FALSE, has_enabled |-> TRUE, enabled |-> TRUE] }

\* neox_args.lr_decay_iters: None or a number; neox_args.warmup: a fraction.
LrDecayIters ==
    { [is_none |-> TRUE, value |-> 0], [is_none |-> FALSE, value |-> 0],
      [is_none |-> FALSE, value |-> 500] }

LrTrainIters == {0, 300, 1000}

Warmups == { [num |-> 0, den |-> 1], [num |-> 1, den |-> 100], [num |-> 1, den |-> 10] }

SetupConfigs ==
    [ optimizer_type : TypeStrings,
      no_load_optim : BOOLEAN,
      use_bnb_optimizer : BOOLEAN,
      soft_prompt_tuning : SoftPromptTunings,
      num_layers : 1..MaxLayers,
      train_iters : LrTrainIters,
      lr_decay_iters : LrDecayIters,
      warmup : Warmups,
      is_pipe_parallel : BOOLEAN ]

\* neox_args.optimizer: the dict {"type": ..., "params": ...} of the configuration.
OptimizerDict(args) == [type |-> args.optimizer_type, params |-> <<>>]

\* Python's ==: a dict is never equal to a str.
DictEqualsStr(d, str) == FALSE

\* The layers of GPT2ModelPipe, and the names of their parameters at index idx.
BaseLayers(n) == <<"word_embeddings">> \o [i \in 1..n |-> "transformer"] \o <<"norm">>

LayerParams(kind, idx) ==
    CASE kind = "word_embeddings" ->
           { <<idx, ".", "word_embeddings", ".", "weight">> }
      [] kind = "transformer" ->
           { <<idx, ".", "attention", ".", "dense", ".", "weight">>,
             <<idx, ".", "attention", ".", "dense", ".", "bias">> }
      [] kind = "norm" ->
           { <<idx, ".", "norm", ".", "weight">>, <<idx, ".", "norm", ".", "bias">> }
      [] kind = "soft_embedding" ->
           { <<idx, ".", "soft_embedding", "_weight">> }

\* model.insert_layers(layers=new, idx=idx)
InsertLayers(layers, new, idx) ==
    SubSeq(layers, 1, idx) \o <<new>> \o SubSeq(layers, idx + 1, Len(layers))

\* model.named_parameters() of a freshly built model: every parameter
\* requires a gradient; `module' is the layer the parameter belongs to.
NamedParameters(layers) ==
    UNION { { [name |-> n, module |-> layers[i], requires_grad |-> TRUE] :
              n \in LayerParams(layers[i], ToString(i - 1)) } : i \in 1..Len(layers) }

\* get_model: soft_prompt_tuning is not None and soft_prompt_tuning.get("enabled", False)
SoftPromptEnabled(args) ==
    /\ ~args.soft_prompt_tuning.is_none
    /\ IF args.soft_prompt_tuning.has_enabled THEN args.soft_prompt_tuning.enabled
                                              ELSE FALSE

\* Mutant: nothing is frozen.
FrozenNone(name) == FALSE

\* get_model: if not "soft_embedding" in name: param.requires_grad = False
Frozen(name) == ~Contains(<<"soft_embedding">>, name)

\* get_model: the parameters of the model it returns.
GetModel(args) ==
    IF SoftPromptEnabled(args)
    THEN { [p EXCEPT !.requires_grad = IF Frozen(p.name) THEN FALSE ELSE @] :
           p \in NamedParameters(InsertLayers(BaseLayers(args.num_layers),
                                               "soft_embedding", 1)) }
    ELSE NamedParameters(BaseLayers(args.num_layers))

\* get_params_for_weight_decay_optimization: the group with weight decay and
\* the group without (biases and norm weights).
NoDecay(p) == p.module = "norm" \/ p.name[Len(p.name)] = "bias"

GetParamsForWeightDecayOptimization(model, args) ==
    << [params |-> {p \in model : ~NoDecay(p)}, weight_decay |-> TRUE],
       [params |-> {p \in model : NoDecay(p)}, weight_decay |-> FALSE] >>

\* filter_trainable_params: the parameters that do not require a gradient are
\* taken out of every group.
FilterTrainableParams(groups) ==
    [i \in 1..Len(groups) |->
        [groups[i] EXCEPT !.params = {p \in groups[i].params : p.requires_grad}]]

NoParamGroups == [is_none |-> TRUE, groups |-> <<>>]

ParamGroups(groups) == [is_none |-> FALSE, groups |-> groups]

\* Mutant: the type is looked at before no_load_optim.
OptimizerLoadingDisabledKnown(args) ==
    args.no_load_optim /\ Lower(args.optimizer_type) \in KnownTypes

\* get_optimizer: if neox_args.no_load_optim: return None, None
OptimizerLoadingDisabled(args) == args.no_load_optim

\* Mutant: the type string is compared as it is written.
OptimizerTypeExact(args) == args.optimizer_type

\* get_optimizer: neox_args.optimizer_type.lower()
OptimizerType(args) == Lower(args.optimizer_type)

\* get_optimizer: the class of the cpu_adam branch.
CpuAdamOptimizer(args) ==
    IF DictEqualsStr(OptimizerDict(args), CPU_TORCH_ADAM) THEN "torch.optim.Adam"
                                                          ELSE "DeepSpeedCPUAdam"

\* get_optimizer: the class of the adam branch; env says which of the
\* packages bitsandbytes and apex can be imported.
AdamOptimizer(args, env) ==
    IF args.use_bnb_optimizer
    THEN IF env.bitsandbytes THEN "bnb.optim.Adam8bit" ELSE "raise"
    ELSE IF env.apex THEN "apex.optimizers.FusedAdam" ELSE "deepspeed.ops.adam.FusedAdam"

\* get_optimizer(model, neox_args): what it returns or raises, and the calls
\* it makes on the way.
GetOptimizer(model, args, env) ==
    IF OptimizerLoadingDisabled(args)
    THEN [raised |-> "none", optimizer |-> "None", param_groups |-> NoParamGroups,
          calls |-> <<>>]
    ELSE LET groups == FilterTrainableParams(
                           GetParamsForWeightDecayOptimization(model, args))
             made == <<"get_params_for_weight_decay_optimization",
                       "filter_trainable_params">>
             t == OptimizerType(args)
             Built(class) ==
                 [raised |-> "none", optimizer |-> class,
                  param_groups |-> ParamGroups(groups), calls |-> Append(made, class)]
             Raised(exc) ==
                 [raised |-> exc, optimizer |-> "None", param_groups |-> NoParamGroups,
                  calls |-> made]
         IN  CASE t \in {CPU_ADAM, CPU_TORCH_ADAM} -> Built(CpuAdamOptimizer(args))
               [] t = ONEBITADAM ->
                    [raised |-> "none", optimizer |-> "None",
                     param_groups |-> ParamGroups(groups), calls |-> made]
               [] t = SM3 -> Built("SM3")
               [] t = MADGRAD_WD -> Built("madgrad_wd")
               [] t = ADAM ->
                    IF AdamOptimizer(args, env) = "raise" THEN Raised("Exception")
                    ELSE Built(AdamOptimizer(args, env))
               [] OTHER -> Raised("ValueError: Optimizer type not recognized")

\* Mutant: the train iterations are taken whatever lr_decay_iters says.
NumItersTrain(args) == args.train_iters

\* get_learning_rate_scheduler: num_iters
NumIters(args) ==
    IF ~args.lr_decay_iters.is_none THEN args.lr_decay_iters.value ELSE args.train_iters

\* A fraction times a whole number.
Times(q, n) == [num |-> q.num * n, den |-> q.den]

NoScheduler ==
    [is_none |-> TRUE, warmup_iter |-> [num |-> 0, den |-> 1], total_iters |-> 0,
     last_iter |-> 0]

\* get_learning_rate_scheduler(optimizer, neox_args)
GetLearningRateScheduler(args) ==
    IF args.no_load_optim THEN NoScheduler
    ELSE IF OptimizerType(args) = ONEBITADAM THEN NoScheduler
    ELSE [is_none |-> FALSE,
          warmup_iter |-> Times(args.warmup, NumIters(args)),
          total_iters |-> Max(1, NumIters(args)),
          last_iter |-> 0]

\* setup_model_and_optimizer: model_parameters
ModelParameters(args, b) ==
    IF args.no_load_optim THEN NoParamGroups
    ELSE IF b.optimizer = "None" THEN b.param_groups ELSE NoParamGroups

BuiltInit ==
    [model |-> {}, optimizer |-> "None", param_groups |-> NoParamGroups,
     lr_scheduler |-> NoScheduler, model_parameters |-> NoParamGroups,
     raised |-> "none", calls |-> <<>>]

InitSetup ==
    /\ neox_args \in SetupConfigs
    /\ pc = "get_model"
    /\ run = 1
    /\ ckpt = NoCheckpoint
    /\ engine = EngineInit
    /\ model_training = TRUE
    /\ iteration = 0
    /\ pretrain_iteration = 0
    /\ skipped_iter = 0
    /\ overflow_monitor = OverflowMonitorInit
    /\ mb = MbInit
    /\ ev = EvInit
    /\ events = <<>>
    /\ lr_history = <<>>
    /\ ranks = <<>>
    /\ overflows = <<>>
    /\ built = BuiltInit
    /\ batch = <<>>

\* What a step of the setup leaves alone.
SetupFrame ==
    UNCHANGED <<neox_args, run, ckpt, engine, model_training, iteration,
                pretrain_iteration, skipped_iter, overflow_monitor, mb, ev, events,
                lr_history, ranks, overflows, batch>>

\* setup_model_and_optimizer: model = get_model(...)
GetModelCall ==
    /\ pc = "get_model"
    /\ built' = [built EXCEPT !.model = GetModel(neox_args)]
    /\ pc' = "get_optimizer"
    /\ SetupFrame

\* setup_model_and_optimizer: optimizer, param_groups = get_optimizer(...)
GetOptimizerCall ==
    /\ pc = "get_optimizer"
    /\ \E env \in [bitsandbytes : BOOLEAN, apex : BOOLEAN] :
         LET r == GetOptimizer(built.model, neox_args, env)
         IN  /\ built' = [built EXCEPT !.optimizer = r.optimizer,
                                       !.param_groups = r.param_groups,
                                       !.raised = r.raised,
                                       !.calls = r.calls]
             /\ pc' = IF r.raised = "none" THEN "get_learning_rate_scheduler"
                                           ELSE "raised"
    /\ SetupFrame

\* setup_model_and_optimizer: lr_scheduler = get_learning_rate_scheduler(...)
GetLearningRateSchedulerCall ==
    /\ pc = "get_learning_rate_scheduler"
    /\ built' = [built EXCEPT !.lr_scheduler = GetLearningRateScheduler(neox_args)]
    /\ pc' = "deepspeed_initialize"
    /\ SetupFrame

\* setup_model_and_optimizer: model_parameters, handed to deepspeed.initialize
DeepspeedInitialize ==
    /\ pc = "deepspeed_initialize"
    /\ built' = [built EXCEPT !.model_parameters = ModelParameters(neox_args, built)]
    /\ pc' = "initialized"
    /\ SetupFrame

NextSetup ==
    \/ GetModelCall \/ GetOptimizerCall \/ GetLearningRateSchedulerCall
    \/ DeepspeedInitialize

SetupSpec == InitSetup /\ [][NextSetup]_vars

-----------------------------------------------------------------------------
(* _get_batch: the batch is broadcast and cut into tokens and labels.  A    *)
(* tensor of two dimensions is a sequence of rows.                          *)

MaxBatch == 2
MaxSeqLen == 3
Vocab == {0, 1}

\* mpu.broadcast_data(keys, data, datatype): every rank gets the data of the
\* rank that read it.
BroadcastData(data) == data

\* tensor.long(): the cast to torch.int64.  The data is broadcast with
\* datatype torch.int64 (get_batch, get_batch_pipe), so the cast finds every
\* value in the range of the type and keeps it.
Long(x) == x

\* Python slices of a row: row[a:] for a >= 0 and row[:b] for b < 0.
SliceFrom(row, a) == SubSeq(row, a + 1, Len(row))

SliceTo(row, b) == SubSeq(row, 1, Len(row) + b)

\* _get_batch: tokens_ = data_b["text"].long()
TokensUnderscore(data_b) ==
    [i \in 1..Len(data_b) |-> [j \in 1..Len(data_b[i]) |-> Long(data_b[i][j])]]

\* Mutant: the labels are not shifted.
LabelsUnshifted(tokens_) == [i \in 1..Len(tokens_) |-> SliceTo(tokens_[i], -1)]

\* _get_batch: labels = tokens_[:, 1:]
Labels(tokens_) == [i \in 1..Len(tokens_) |-> SliceFrom(tokens_[i], 1)]

\* _get_batch: tokens = tokens_[:, :-1]
Tokens(tokens_) == [i \in 1..Len(tokens_) |-> SliceTo(tokens_[i], -1)]

BatchInit(data) == [data |-> data, data_b |-> <<>>, tokens |-> <<>>, labels |-> <<>>]

\* The batches: up to MaxBatch rows of seq_len + 1 token ids each.
InitBatch ==
    /\ neox_args \in {[eod_mask_loss |-> FALSE]}
    /\ pc = "broadcast_data"
    /\ run = 1
    /\ ckpt = NoCheckpoint
    /\ engine = EngineInit
    /\ model_training = TRUE
    /\ iteration = 0
    /\ pretrain_iteration = 0
    /\ skipped_iter = 0
    /\ overflow_monitor = OverflowMonitorInit
    /\ mb = MbInit
    /\ ev = EvInit
    /\ events = <<>>
    /\ lr_history = <<>>
    /\ ranks = <<>>
    /\ overflows = <<>>
    /\ built = <<>>
    /\ \E b \in 1..MaxBatch : \E seq_len \in 0..MaxSeqLen :
          \E data \in [1..b -> [1..(seq_len + 1) -> Vocab]] : batch = BatchInit(data)

\* What a step of _get_batch leaves alone.
BatchFrame ==
    UNCHANGED <<neox_args, run, ckpt, engine, model_training, iteration,
                pretrain_iteration, skipped_iter, overflow_monitor, mb, ev, events,
                lr_history, ranks, overflows, built>>

\* _get_batch: data_b = mpu.broadcast_data(keys, data, datatype)
Broadcast ==
    /\ pc = "broadcast_data"
    /\ batch' = [batch EXCEPT !.data_b = BroadcastData(batch.data)]
    /\ pc' = "unpack"
    /\ BatchFrame

\* _get_batch: the unpacking; the masks and position ids are computed from
\* the tokens and leave tokens and labels as they are.
Unpack ==
    /\ pc = "unpack"
    /\ batch' = [batch EXCEPT !.tokens = Tokens(TokensUnderscore(batch.data_b)),
                              !.labels = Labels(TokensUnderscore(batch.data_b))]
    /\ pc' = "batch_done"
    /\ BatchFrame

NextBatch == Broadcast \/ Unpack

BatchSpec == InitBatch /\ [][NextBatch]_vars

-----------------------------------------------------------------------------
(* Properties. *)

\* The train steps this run has executed, and the flags fed to the monitor.
StepsThisRun == Count("train_step")

Fed == Args("check")

\* The scheduler position lr_history records for iteration k (0 before any step).
LrAt(k) == IF k = 0 THEN 0 ELSE IF k <= Len(lr_history) THEN lr_history[k] ELSE -1

\* This run loaded a checkpoint and has not yet taken a train step.
Resumed == neox_args.load /\ Count("load") = 1

\* C1: checkpoint round trip.  A run that loaded the checkpoint saved at
\* iteration K enters the training loop with iteration = K, with the engine at
\* K optimizer steps and at the scheduler position the training that wrote the
\* checkpoint had after its iteration K; its first train step produces
\* iteration K+1 on an engine at K+1 optimizer steps.
C1_CheckpointRoundTrip ==
    /\ (Resumed /\ pc = "while" /\ StepsThisRun = 0) =>
          /\ iteration = ckpt.iteration
          /\ engine.global_steps = iteration
          /\ Len(lr_history) = iteration
          /\ engine.lr_step = LrAt(iteration)
    /\ (Resumed /\ pc = "check" /\ StepsThisRun = 1) =>
          /\ iteration = ckpt.iteration + 1
          /\ engine.global_steps = iteration

\* A resumed run has taken its first step, after a training in which a step
\* had been skipped.
C1_Witness ==
    /\ Resumed /\ pc = "check" /\ StepsThisRun = 1
    /\ iteration = ckpt.iteration + 1
    /\ ckpt.iteration >= 1
    /\ ckpt.lr_step < ckpt.global_steps

C3_IterationMonotonic ==
    /\ [](iteration >= 0)
    /\ [][run' = run =>
            /\ iteration' >= iteration
            /\ pc = "skipped_iter" => pc' = "increment"
            /\ pc = "increment" => iteration' = iteration + 1
            /\ pc \notin {"train", "increment"} => iteration' = iteration]_vars

\* The counter has been incremented twice, with a log, a checkpoint and an
\* evaluation in between.
C3_Witness ==
    /\ pc = "check"
    /\ iteration >= 2
    /\ Count("log") >= 1 /\ Count("save") >= 1 /\ Count("evaluate") >= 1

\* C4 as stated: at the end of the run, the checkpoint at the end of training
\* has been saved exactly once if saving is configured and this run executed a
\* train step, and not at all otherwise.
C4_EndSaveIffStepRan ==
    pc = "done" =>
        Count("end_save") = IF neox_args.save /\ StepsThisRun >= 1 THEN 1 ELSE 0

\* C4, amended: at the normal end of the run, the checkpoint at the end of
\* training has been saved exactly once if saving is configured and train()
\* was called (do_train and train_iters > 0, so that the iteration count it
\* returned is not 0), whether or not this run executed a train step, and not
\* at all otherwise; a run that ends by the early exit or the overflow abort
\* saves no checkpoint at the end.
C4_EndSaveIffTrained ==
    /\ pc = "done" =>
          Count("end_save") =
             IF neox_args.save /\ neox_args.do_train /\ neox_args.train_iters > 0
             THEN 1 ELSE 0
    /\ pc \in {"exited", "aborted"} => Count("end_save") = 0
    /\ Count("end_save") <= 1
    /\ \A i \in 1..Len(events) :
          events[i].ev = "end_save" =>
             /\ Count("return") = 1
             /\ events[i].arg = Args("return")[1]
             /\ events[i].arg # 0

\* A run resumed at an iteration >= train_iters has ended with the checkpoint
\* at the end of training, without having executed a train step.
C4_Witness ==
    /\ pc = "done"
    /\ StepsThisRun = 0
    /\ Count("end_save") = 1

\* C5: in the training loop a checkpoint is saved at counter value i if and
\* only if saving is configured, save_interval is not 0 and
\* i % save_interval = 0; it is saved right after the step that brought the
\* counter to i (after its overflow check and its log), and the iteration
\* handed to save_checkpoint is i.
C5_SaveOnInterval ==
    /\ [][pc = "checkpointing" =>
            IF /\ neox_args.save
               /\ neox_args.save_interval # 0
               /\ iteration % neox_args.save_interval = 0
            THEN /\ events' = Append(events, Event("save", iteration, iteration))
                 /\ ckpt'.exists /\ ckpt'.iteration = iteration
                 /\ ckpt'.global_steps = engine.global_steps
            ELSE events' = events /\ ckpt' = ckpt]_vars
    /\ [](\A i \in 1..Len(events) :
             events[i].ev = "save" =>
                /\ i >= 4
                /\ events[i-1] = Event("log", events[i].arg, events[i-1].arg)
                /\ events[i-2].ev = "check" /\ events[i-2].it = events[i].arg
                /\ events[i-3].ev = "train_step" /\ events[i-3].it = events[i].arg - 1)

\* The checkpoint of iteration 2 has been saved on an interval of 2, and none
\* at iteration 1.
C5_Witness ==
    /\ pc = "evaluation"
    /\ neox_args.save_interval = 2
    /\ iteration = 2
    /\ Args("save") = <<2>>

\* C6: setup calls load_checkpoint once if a load path is configured and never
\* otherwise; neox_args.iteration is what load_checkpoint returned, or 0
\* without a load path; and the training loop starts at neox_args.iteration.
C6_LoadOnceAndResume ==
    /\ pc # "setup" =>
          /\ Count("load") = IF neox_args.load THEN 1 ELSE 0
          /\ neox_args.iteration = IF neox_args.load THEN Args("load")[1] ELSE 0
    /\ (pc = "while" /\ StepsThisRun = 0) => iteration = neox_args.iteration
    /\ \A i \in 1..Len(events) : events[i].ev = "load" => i = 1

\* The training loop of a run that loaded a checkpoint starts at the iteration
\* load_checkpoint returned, which is not 0.
C6_Witness ==
    /\ pc = "while"
    /\ StepsThisRun = 0
    /\ Args("load") = <<iteration>>
    /\ iteration >= 1

\* C7: with the flags fed to the monitor one per iteration, the monitor has
\* raised, and the run is aborted, exactly when the last OverflowThreshold
\* flags fed were all skips; a flag of a step that was not skipped puts the
\* count of skips in a row back to 0 and does not abort.
C7_OverflowMonitor ==
    LET n == Len(Fed)
        N == OverflowThreshold
        lastAllSkips == n >= N /\ \A i \in (n - N + 1)..n : Fed[i] = 1
    IN  pc \in {"training_log", "checkpointing", "evaluation", "exit", "aborted"} =>
          /\ lastAllSkips <=> pc = "aborted"
          /\ lastAllSkips <=> overflow_monitor.raised
          /\ Fed[n] = 0 => overflow_monitor.skips = 0 /\ pc # "aborted"
          /\ \A k \in 1..n :
                (\A i \in (n - k + 1)..n : Fed[i] = 1) => overflow_monitor.skips >= k

\* OverflowThreshold - 1 skips and then a step that was not skipped have been
\* fed, and the run goes on.
C7_Witness ==
    /\ pc = "training_log"
    /\ Len(Fed) = OverflowThreshold
    /\ \A i \in 1..(OverflowThreshold - 1) : Fed[i] = 1
    /\ Fed[OverflowThreshold] = 0
    /\ overflow_monitor.skips = 0

\* C8: once the overflow check has raised, the run is aborted: the check is
\* the last thing the run has done (no log, checkpoint, evaluation, barrier or
\* train step follows it), train has not returned, and the run stays aborted.
C8_AbortIsFatal ==
    /\ [](overflow_monitor.raised =>
             /\ pc = "aborted"
             /\ events[Len(events)] = Event("check", iteration, 1)
             /\ Count("return") = 0 /\ Count("end_save") = 0)
    /\ [][(pc = "aborted" /\ run' = run) => UNCHANGED vars]_vars

\* The run was aborted at an iteration before train_iters.
C8_Witness ==
    /\ pc = "aborted"
    /\ overflow_monitor.raised
    /\ iteration < neox_args.train_iters

\* C9: the flag train_step returns is 1 exactly when the precision is fp16
\* and the optimizer reports an overflow after the step, and 0 in every other
\* case, in pipeline and in manual mode.
C9_SkippedFlag ==
    pc = "increment" =>
        /\ skipped_iter \in {0, 1}
        /\ skipped_iter = 1 <=> (neox_args.precision = "fp16" /\ engine.overflow)
        /\ events[Len(events)] = Event("train_step", iteration, skipped_iter)

\* train_step has returned 0 although the optimizer reports an overflow: the
\* precision is not fp16.
C9_Witness ==
    /\ pc = "increment"
    /\ neox_args.precision # "fp16"
    /\ engine.overflow
    /\ skipped_iter = 0
    /\ neox_args.is_pipe_parallel

\* C10: when evaluate returns the model is in training mode, whatever mode
\* it was in at the call, and every forward pass of evaluate runs with the
\* model in evaluation mode.
C10_EvaluateModelMode ==
    /\ pc = "eval_forward" => ~model_training
    /\ Count("evaluated") >= 1 /\ pc = ev.ret => model_training

\* evaluate, called on a model in evaluation mode, has returned after its
\* forward passes.
C10_Witness ==
    /\ pc = "caller"
    /\ ~ev.before
    /\ ev.forwards >= 2
    /\ model_training

\* The positions inside evaluate.
EvalPcs == {"evaluate", "eval_while", "eval_forward", "eval_return"}

\* A step taken inside evaluate leaves the training state alone and makes no
\* call on the model but a forward pass.
EvaluateFrame ==
    pc \in EvalPcs =>
       /\ engine' = engine
       /\ iteration' = iteration
       /\ pretrain_iteration' = pretrain_iteration
       /\ overflow_monitor' = overflow_monitor
       /\ lr_history' = lr_history
       /\ ckpt' = ckpt
       /\ \A i \in 1..Len(ev'.calls) : ev'.calls[i] \in {"forward", "eval_batch"}

\* C11: evaluation leaves the training state alone.  No step taken inside
\* evaluate changes the engine (its step counters, and with them the
\* parameters, the optimizer state and the scheduler position), the iteration
\* counter of train or of pretrain, the overflow monitor or the checkpoint,
\* and the only calls evaluate makes on the model are forward passes: never a
\* backward pass, an optimizer step or a training batch.
C11_EvaluateFrame == [][EvaluateFrame]_vars

\* An evaluation called from the training loop has returned to it, after
\* forward passes, on an engine that has taken steps and advanced the scheduler.
C11_Witness ==
    /\ pc = "exit"
    /\ Count("evaluated") >= 1
    /\ Len(ev.calls) >= 1
    /\ iteration >= 2
    /\ engine.lr_step >= 1

\* C12: the synchronized early exit.  A worker that has left through the
\* exit interval has passed the barrier, which every other worker has entered
\* at the same iteration, an iteration on the exit interval: every other
\* worker waits in that barrier or has left through it, and none is training.
C12_SynchronizedExit ==
    \A w \in Workers :
       ranks[w].pc = "exited" =>
          /\ ExitDue(neox_args, ranks[w].iteration)
          /\ \A v \in Workers :
                /\ ranks[v].pc \in {"barrier", "exited"}
                /\ ranks[v].iteration = ranks[w].iteration
                /\ ranks[v].ops[Len(ranks[v].ops)] = Op("barrier", ranks[w].iteration)

\* One worker has left at the second iteration while another still waits in
\* the barrier.
C12_Witness ==
    \E w, v \in Workers :
       /\ ranks[w].pc = "exited"
       /\ ranks[v].pc = "barrier"
       /\ ranks[w].iteration = 2

\* The collectives the loop body issues in the iteration that ends with the
\* counter at `it', as the configuration and the counter alone determine them.
IterationOps(args, it) ==
    <<Op("train_step", it - 1)>>
    \o (IF SaveDue(args, it) THEN <<Op("save_checkpoint", it)>> ELSE <<>>)
    \o (IF EvalDue(args, it) THEN <<Op("evaluate", it)>> ELSE <<>>)
    \o (IF ExitDue(args, it) THEN <<Op("barrier", it)>> ELSE <<>>)

\* The collectives of a whole training that nothing cuts short.
RECURSIVE Schedule(_, _)
Schedule(args, it) ==
    IF it > args.train_iters THEN <<>>
    ELSE IterationOps(args, it) \o Schedule(args, it + 1)

IsPrefix(s, t) == Len(s) <= Len(t) /\ s = SubSeq(t, 1, Len(s))

AfterGetOptimizer ==
    pc \in {"get_learning_rate_scheduler", "deepspeed_initialize", "initialized", "raised"}

\* The type string, lower-cased, is one of the six known types.
Recognized == Lower(neox_args.optimizer_type) \in KnownTypes

\* C14: with optimizer loading disabled (no_load_optim) get_optimizer returns
\* (None, None) for every type string, recognized or not: it raises nothing,
\* builds no parameter group and constructs no optimizer.
C14_NoLoadOptim ==
    (AfterGetOptimizer /\ neox_args.no_load_optim) =>
       /\ pc # "raised"
       /\ built.raised = "none"
       /\ built.optimizer = "None"
       /\ built.param_groups.is_none
       /\ built.calls = <<>>

\* get_optimizer has returned with loading disabled and a type string that is
\* none of the known types.
C14_Witness ==
    /\ pc = "get_learning_rate_scheduler"
    /\ neox_args.no_load_optim
    /\ ~Recognized
    /\ neox_args.optimizer_type # <<>>

\* C15: with optimizer loading enabled, get_optimizer raises the
\* unrecognized-type error exactly for the type strings that, lower-cased, are
\* none of cpu_adam, cpu_torch_adam, onebitadam, sm3, madgrad_wd, adam; for a
\* string that is one of them in any spelling of upper and lower case it
\* builds the parameter groups and takes the branch of that type, and for
\* onebitadam it returns no optimizer together with the parameter groups.
C15_TypeSelection ==
    (AfterGetOptimizer /\ ~neox_args.no_load_optim) =>
       LET t == Lower(neox_args.optimizer_type)
       IN  /\ (built.raised = "ValueError: Optimizer type not recognized") <=> ~Recognized
           /\ ~Recognized => pc = "raised"
           /\ t = ONEBITADAM =>
                 /\ built.raised = "none"
                 /\ built.optimizer = "None"
                 /\ ~built.param_groups.is_none
           /\ t \in {CPU_ADAM, CPU_TORCH_ADAM} =>
                 /\ built.raised = "none"
                 /\ built.optimizer \in {"torch.optim.Adam", "DeepSpeedCPUAdam"}
                 /\ ~built.param_groups.is_none
           /\ t = SM3 => built.raised = "none" /\ built.optimizer = "SM3"
           /\ t = MADGRAD_WD => built.raised = "none" /\ built.optimizer = "madgrad_wd"
           /\ t = ADAM =>
                 \/ built.raised = "Exception" /\ neox_args.use_bnb_optimizer
                 \/ /\ built.raised = "none"
                    /\ built.optimizer \in {"bnb.optim.Adam8bit", "apex.optimizers.FusedAdam",
                                            "deepspeed.ops.adam.FusedAdam"}

\* get_optimizer has returned for onebitadam written with capitals: no
\* optimizer, and the parameter groups.
C15_Witness ==
    /\ pc = "get_learning_rate_scheduler"
    /\ ~neox_args.no_load_optim
    /\ Lower(neox_args.optimizer_type) = ONEBITADAM
    /\ neox_args.optimizer_type # ONEBITADAM
    /\ built.optimizer = "None"
    /\ ~built.param_groups.is_none

\* C16: a scheduler that is built has the total duration max(1, num_iters)
\* and the warmup duration warmup * num_iters, where num_iters is
\* lr_decay_iters if that is set (be it 0) and train_iters otherwise; with
\* warmup = 0.01, train_iters = 1000 and lr_decay_iters not set the total
\* duration is 1000 and the warmup duration 10.
C16_SchedulerDurations ==
    (pc \in {"deepspeed_initialize", "initialized"} /\ ~built.lr_scheduler.is_none) =>
       LET n == IF neox_args.lr_decay_iters.is_none THEN neox_args.train_iters
                ELSE neox_args.lr_decay_iters.value
           sch == built.lr_scheduler
       IN  /\ sch.total_iters = (IF n >= 1 THEN n ELSE 1)
           /\ sch.warmup_iter.num * neox_args.warmup.den
                 = neox_args.warmup.num * n * sch.warmup_iter.den
           /\ sch.last_iter = 0
           /\ (/\ neox_args.warmup = [num |-> 1, den |-> 100]
               /\ neox_args.train_iters = 1000
               /\ neox_args.lr_decay_iters.is_none) =>
                 /\ sch.total_iters = 1000
                 /\ sch.warmup_iter.num = 10 * sch.warmup_iter.den

\* The scheduler has been built for warmup = 0.01, train_iters = 1000 and no
\* lr_decay_iters.
C16_Witness ==
    /\ pc = "deepspeed_initialize"
    /\ ~built.lr_scheduler.is_none
    /\ neox_args.warmup = [num |-> 1, den |-> 100]
    /\ neox_args.train_iters = 1000
    /\ neox_args.lr_decay_iters.is_none
    /\ built.lr_scheduler.total_iters = 1000

\* The parameters in the groups get_optimizer returned.
PassedParams ==
    UNION { built.param_groups.groups[i].params :
            i \in 1..Len(built.param_groups.groups) }

\* C18: frozen-parameter filtering.  After get_model with soft-prompt tuning
\* enabled and get_optimizer with optimizer loading enabled, the parameter
\* groups hold exactly the parameters of the inserted soft-prompt module, all
\* of them requiring a gradient, and no parameter of the base model.
C18_FrozenFiltering ==
    (/\ AfterGetOptimizer
     /\ ~built.param_groups.is_none
     /\ ~neox_args.soft_prompt_tuning.is_none
     /\ neox_args.soft_prompt_tuning.has_enabled
     /\ neox_args.soft_prompt_tuning.enabled) =>
       /\ PassedParams = {p \in built.model : p.module = "soft_embedding"}
       /\ PassedParams # {}
       /\ \A p \in PassedParams : p.requires_grad
       /\ \A p \in built.model : p.module # "soft_embedding" => p \notin PassedParams

\* An optimizer has been constructed on the groups of a model of several
\* layers with a soft prompt.
C18_Witness ==
    /\ pc = "get_learning_rate_scheduler"
    /\ neox_args.soft_prompt_tuning.enabled
    /\ neox_args.num_layers >= 2
    /\ built.optimizer # "None"
    /\ Cardinality(built.model) >= 7
    /\ Cardinality(PassedParams) = 1

\* C17: tokens and labels of a batch.  For every row i of the raw batch and
\* every position j of the output, tokens[i][j] is raw[i][j] and labels[i][j]
\* is raw[i][j+1]: tokens is the raw row without its last element, labels the
\* raw row without its first, both one shorter than the raw row.
C17_TokensAndLabels ==
    pc = "batch_done" =>
       /\ Len(batch.tokens) = Len(batch.data)
       /\ Len(batch.labels) = Len(batch.data)
       /\ \A i \in 1..Len(batch.data) :
             /\ Len(batch.tokens[i]) = Len(batch.data[i]) - 1
             /\ Len(batch.labels[i]) = Len(batch.data[i]) - 1
             /\ \A j \in 1..(Len(batch.data[i]) - 1) :
                   /\ batch.tokens[i][j] = batch.data[i][j]
                   /\ batch.labels[i][j] = batch.data[i][j + 1]

\* A batch of two different rows of four token ids has been cut.
C17_Witness ==
    /\ pc = "batch_done"
    /\ batch.data = << <<0, 1, 1, 0>>, <<1, 1, 0, 1>> >>
    /\ batch.tokens[1] = <<0, 1, 1>>
    /\ batch.labels[1] = <<1, 1, 0>>

\* The calls of n rounds of the manual loop.
ManualRound == <<"forward", "backward", "step">>

PipelineCalls ==
    neox_args.is_pipe_parallel =>
       /\ Len(mb.calls) <= 1
       /\ \A k \in 1..Len(mb.calls) : mb.calls[k] = "train_batch"
       /\ pc = "skipped_iter" =>
             /\ mb.calls = <<"train_batch">>
             /\ mb.losses = 0
             /\ mb.loss_dict = [keys |-> {"lm_loss"}, reduced |-> 1]

\* The mode stays what it is, from step to step and from run to run.
ModeKept == neox_args'.is_pipe_parallel = neox_args.is_pipe_parallel

\* C20: the pipeline train step.  In pipeline mode a train step makes exactly
\* one train_batch call and no forward, backward or step call of its own, and
\* the mode never changes, so every step takes the same one of the two paths.
C20_PipelineStep == []PipelineCalls /\ [][ModeKept]_vars

\* The second train step of a run in pipeline mode has made its call.
C20_Witness ==
    /\ pc = "skipped_iter"
    /\ neox_args.is_pipe_parallel
    /\ mb.calls = <<"train_batch">>
    /\ iteration = 1
    /\ neox_args.gradient_accumulation_steps = 2

\* The positions inside the manual loop of train_step.
ManualPcs == {"forward", "backward", "step"}

PerEvalIteration ==
    IF neox_args.is_pipe_parallel THEN 1 ELSE neox_args.gradient_accumulation_steps

\* C22: the forward passes of evaluate.  evaluate runs no more than eval_iters
\* iterations and, when it returns, exactly eval_iters; every iteration makes
\* 1 forward pass in pipeline mode and gradient_accumulation_steps forward
\* passes otherwise, appends one loss per forward pass and makes no other call
\* on the model, so that the forward passes of the whole evaluation number
\* eval_iters times the passes of one iteration.
C22_EvaluateForwards ==
    /\ ev.iteration <= neox_args.eval_iters
    /\ ev.losses = ev.forwards
    /\ Len(ev.calls) = ev.forwards
    /\ \A k \in 1..Len(ev.calls) : ev.calls[k] \in {"forward", "eval_batch"}
    /\ pc = "eval_while" => ev.forwards = ev.iteration * PerEvalIteration
    /\ pc = "eval_forward" =>
          /\ ev.mb < PerEvalIteration
          /\ ev.forwards = (ev.iteration - 1) * PerEvalIteration + ev.mb
    /\ pc \in {"eval_return", "caller"} =>
          /\ ev.iteration = neox_args.eval_iters
          /\ ev.forwards = neox_args.eval_iters * PerEvalIteration

\* An evaluation of two iterations of two micro-batches each has returned.
C22_Witness ==
    /\ pc = "caller"
    /\ ~neox_args.is_pipe_parallel
    /\ neox_args.eval_iters = 2
    /\ neox_args.gradient_accumulation_steps = 2
    /\ ev.forwards = 4
    /\ ev.losses = 4

\* The iteration is on the exit interval.
OnExitInterval == neox_args.exit_interval # 0 /\ iteration % neox_args.exit_interval = 0

\* What the loop body does at iteration i between the log and the exit: the
\* save and the evaluation that are due at i, then the barrier.
ExitTail(i) ==
    (IF neox_args.save /\ neox_args.save_interval # 0 /\ i % neox_args.save_interval = 0
     THEN <<Event("save", i, i)>> ELSE <<>>)
    \o (IF neox_args.eval_interval # 0 /\ i % neox_args.eval_interval = 0
           /\ neox_args.do_valid
        THEN <<Event("evaluate", i, i),
               Event("evaluated", i, neox_args.eval_iters * PerEvalIteration)>>
        ELSE <<>>)
    \o <<Event("barrier", i, i)>>

\* The run has left through the exit interval: what it did, in order.
ExitedRun ==
    pc = "exited" =>
       LET t == ExitTail(iteration)
           n == Len(events)
       IN  /\ OnExitInterval
           /\ n > Len(t)
           /\ SubSeq(events, n - Len(t) + 1, n) = t
           /\ events[n - Len(t)] = Event("log", iteration, skipped_iter)
           /\ Count("barrier") = 1
           /\ Count("return") = 0
           /\ Count("end_save") = 0
           /\ pretrain_iteration = 0
           /\ \A k \in 1..n : events[k].ev = "evaluate" => events[k].it >= 1

\* At the end of the loop body on the exit interval the process exits.
ExitTaken == (pc = "exit" /\ OnExitInterval) => pc' = "exited"

\* The process that has exited does nothing more.
ExitIsFinal == (pc = "exited" /\ run' = run) => UNCHANGED vars

\* C23: the exit on the exit interval.  At an iteration i on the exit
\* interval the loop body, after the log, saves the checkpoint if it is due at
\* i, evaluates if that is due at i, passes the barrier and exits the process:
\* train does not return, and the run makes no end-of-run validation, no
\* end-of-run save and no test evaluation, nor any other step.
C23_ExitOrdering == []ExitedRun /\ [][ExitTaken]_vars /\ [][ExitIsFinal]_vars

\* The run has exited at iteration 2 after the save and the evaluation of
\* that iteration.
C23_Witness ==
    /\ pc = "exited"
    /\ iteration = 2
    /\ neox_args.do_test
    /\ Len(ExitTail(2)) = 4
    /\ events[Len(events) - 3] = Event("save", 2, 2)
    /\ events[Len(events) - 2] = Event("evaluate", 2, 2)

\* What the loop body does after the log of iteration i: the save and the
\* evaluation due at i, and on the exit interval the barrier.
BodyTail(i) ==
    IF neox_args.exit_interval # 0 /\ i % neox_args.exit_interval = 0
    THEN ExitTail(i)
    ELSE SubSeq(ExitTail(i), 1, Len(ExitTail(i)) - 1)

\* What follows the train step logged at position j of events, as far as the
\* run has come: the check and the log of the next iteration with the flag of
\* the step, the tail of the loop body for that iteration, and then the next
\* train step, at that iteration, or the return of train.
AfterTrainStep(j) ==
    LET n == Len(events)
        i == events[j].it + 1
        f == events[j].arg
        t == BodyTail(i)
        next == j + 2 + Len(t) + 1
    IN  /\ f \in {0, 1}
        /\ j + 1 <= n => events[j + 1] = Event("check", i, f)
        /\ j + 2 <= n => events[j + 2] = Event("log", i, f)
        /\ \A m \in 1..Len(t) : j + 2 + m <= n => events[j + 2 + m] = t[m]
        /\ next <= n =>
              \/ events[next].ev = "train_step" /\ events[next].it = i
              \/ events[next] = Event("return", i, i) /\ i >= neox_args.train_iters

\* C24: a skipped step.  Whatever its flag, a train step at iteration k is
\* followed by the check and the log of iteration k+1 with that flag and by
\* the save, the evaluation and the exit that the intervals prescribe for k+1,
\* and then by the train step of iteration k+1 or by the return of train at
\* train_iters: the step is not run again and it counts toward train_iters
\* like any other; the train steps of a run number the iterations it has
\* advanced; and the run is aborted only after OverflowThreshold skipped
\* steps in a row, not for a skipped step by itself.
C24_SkippedStep ==
    /\ \A j \in 1..Len(events) : events[j].ev = "train_step" => AfterTrainStep(j)
    /\ pc \in {"check", "training_log", "checkpointing", "evaluation", "exit",
               "while", "train_return"} =>
          StepsThisRun = iteration - neox_args.iteration
    /\ pc = "aborted" =>
          /\ Len(Fed) >= OverflowThreshold
          /\ \A k \in (Len(Fed) - OverflowThreshold + 1)..Len(Fed) : Fed[k] = 1

\* A run whose first step was skipped has logged it, saved and evaluated at
\* iteration 1, gone on with a second step that was not skipped, and ended.
C24_Witness ==
    /\ pc = "done"
    /\ Len(events) >= 8
    /\ events[1] = Event("train_step", 0, 1)
    /\ events[2] = Event("check", 1, 1)
    /\ events[3] = Event("log", 1, 1)
    /\ events[4] = Event("save", 1, 1)
    /\ events[5] = Event("evaluate", 1, 1)
    /\ events[7] = Event("train_step", 1, 0)
    /\ iteration = neox_args.train_iters

\* C25: the two CPU types.  With optimizer loading enabled, get_optimizer
\* builds torch.optim.Adam for the type cpu_torch_adam, in any spelling of
\* upper and lower case, and DeepSpeedCPUAdam for the type cpu_adam.  (The
\* program does not satisfy this: line 311 compares neox_args.optimizer, the
\* dict of the configuration, with the string, which is never equal, so both
\* types get DeepSpeedCPUAdam.)
C25_CpuAdamSelection ==
    (AfterGetOptimizer /\ ~neox_args.no_load_optim /\ built.raised = "none") =>
       /\ Lower(neox_args.optimizer_type) = CPU_TORCH_ADAM =>
             built.optimizer = "torch.optim.Adam"
       /\ Lower(neox_args.optimizer_type) = CPU_ADAM =>
             built.optimizer = "DeepSpeedCPUAdam"

\* get_optimizer has returned for the type cpu_torch_adam, written in lower
\* case, with the DeepSpeed class.
C25_Witness ==
    /\ pc = "get_learning_rate_scheduler"
    /\ ~neox_args.no_load_optim
    /\ neox_args.optimizer_type = CPU_TORCH_ADAM
    /\ built.raised = "none"
    /\ built.optimizer = "DeepSpeedCPUAdam"

====
